---- MODULE Spec2Model ----
(***************************************************************************)
(* Model of the /suggestions endpoint of main.py (class Suggestions).      *)
(*                                                                         *)
(* Strings are sequences of one-character strings.  A score is a pair      *)
(* <<numerator, denominator>>.  Latitudes and longitudes are whole         *)
(* degrees.  The handler Suggestions.get is split at its program points:   *)
(* argument validation, one step per gazetteer row, and the final sort     *)
(* and return.                                                             *)
(***************************************************************************)
EXTENDS Integers, Sequences, FiniteSets, TLC

\* ------------------------------------------------------------------------
\* Bounds of the model
\* ------------------------------------------------------------------------
MaxRecords == 2

NumRequests == 2

\* ------------------------------------------------------------------------
\* Characters
\* ------------------------------------------------------------------------
Digits == {"0", "1", "2", "4", "5", "6", "8"}

\* Unicode code points of the characters the model uses
Ord(c) ==
  CASE c = " " -> 32 [] c = "," -> 44
    [] c = "0" -> 48 [] c = "1" -> 49 [] c = "2" -> 50 [] c = "4" -> 52
    [] c = "5" -> 53 [] c = "6" -> 54 [] c = "8" -> 56
    [] c = "A" -> 65 [] c = "D" -> 68 [] c = "I" -> 73 [] c = "L" -> 76
    [] c = "N" -> 78 [] c = "O" -> 79 [] c = "R" -> 82 [] c = "S" -> 83
    [] c = "T" -> 84 [] c = "K" -> 75 [] c = "X" -> 88 [] c = "Y" -> 89
    [] c = "a" -> 97 [] c = "d" -> 100 [] c = "i" -> 105 [] c = "l" -> 108
    [] c = "n" -> 110 [] c = "o" -> 111 [] c = "r" -> 114 [] c = "s" -> 115
    [] c = "t" -> 116 [] c = "k" -> 107 [] c = "x" -> 120 [] c = "y" -> 121
    [] c = "E_acute" -> 201 [] c = "e_acute" -> 233

\* str.lower on one character
LowerChar(c) ==
  CASE c = "A" -> "a" [] c = "D" -> "d" [] c = "I" -> "i" [] c = "L" -> "l"
    [] c = "N" -> "n" [] c = "O" -> "o" [] c = "R" -> "r" [] c = "S" -> "s"
    [] c = "T" -> "t" [] c = "K" -> "k" [] c = "X" -> "x" [] c = "Y" -> "y"
    [] c = "E_acute" -> "e_acute"
    [] OTHER -> c

\* str.upper on one character
UpperChar(c) ==
  CASE c = "a" -> "A" [] c = "d" -> "D" [] c = "i" -> "I" [] c = "l" -> "L"
    [] c = "n" -> "N" [] c = "o" -> "O" [] c = "r" -> "R" [] c = "s" -> "S"
    [] c = "t" -> "T" [] c = "k" -> "K" [] c = "x" -> "X" [] c = "y" -> "Y"
    [] c = "e_acute" -> "E_acute"
    [] OTHER -> c

IsDigitChar(c) == Ord(c) >= 48 /\ Ord(c) <= 57

\* a cased character (a letter that has an upper or a lower form)
IsLetterChar(c) == LowerChar(c) /= c \/ UpperChar(c) /= c

\* the regular expression class \w
IsWordChar(c) == IsDigitChar(c) \/ IsLetterChar(c)

\* ------------------------------------------------------------------------
\* String methods
\* ------------------------------------------------------------------------
\* str.lower
lower(s) == [i \in 1..Len(s) |-> LowerChar(s[i])]

\* str.title: the first letter of every run of letters in upper case,
\* the other letters in lower case
title(s) ==
  [i \in 1..Len(s) |->
     IF i = 1 \/ ~IsLetterChar(s[i - 1]) THEN UpperChar(s[i])
     ELSE LowerChar(s[i])]

\* str.isdigit: at least one character and every character a digit
isdigit(s) == Len(s) > 0 /\ \A i \in 1..Len(s) : IsDigitChar(s[i])

\* str.replace(" ", "")
RECURSIVE replace_spaces(_)
replace_spaces(s) ==
  IF s = <<>> THEN <<>>
  ELSE IF Head(s) = " " THEN replace_spaces(Tail(s))
  ELSE <<Head(s)>> \o replace_spaces(Tail(s))

\* str.split(sep): the pieces between the separators, empty pieces kept
RECURSIVE split_on(_, _)
split_on(s, sep) ==
  IF \A i \in 1..Len(s) : s[i] /= sep THEN <<s>>
  ELSE LET k == CHOOSE i \in 1..Len(s) :
                  s[i] = sep /\ \A j \in 1..(i - 1) : s[j] /= sep
       IN <<SubSeq(s, 1, k - 1)>> \o split_on(SubSeq(s, k + 1, Len(s)), sep)

\* str.strip
RECURSIVE strip(_)
strip(s) ==
  IF s = <<>> THEN s
  ELSE IF Head(s) = " " THEN strip(Tail(s))
  ELSE IF s[Len(s)] = " " THEN strip(SubSeq(s, 1, Len(s) - 1))
  ELSE s

\* the number of bytes of s.encode(): one byte below code point 128,
\* two bytes up to code point 2047
RECURSIVE EncodedLen(_)
EncodedLen(s) ==
  IF s = <<>> THEN 0
  ELSE (IF Ord(Head(s)) < 128 THEN 1 ELSE 2) + EncodedLen(Tail(s))

\* Suggestions.isascii
isascii(s) == Len(s) = EncodedLen(s)

\* ------------------------------------------------------------------------
\* fuzzywuzzy
\* ------------------------------------------------------------------------
\* utils.asciidammit: characters 128..255 are deleted
RECURSIVE asciidammit(_)
asciidammit(s) ==
  IF s = <<>> THEN <<>>
  ELSE IF Ord(Head(s)) >= 128 /\ Ord(Head(s)) <= 255
       THEN asciidammit(Tail(s))
  ELSE <<Head(s)>> \o asciidammit(Tail(s))

\* utils.full_process(s, force_ascii=True)
full_process(s) ==
  LET a == asciidammit(s)
      w == [i \in 1..Len(a) |-> IF IsWordChar(a[i]) THEN a[i] ELSE " "]
  IN strip(lower(w))

\* set(p.split()): the maximal runs of non-blank characters
TokenSet(p) ==
  {SubSeq(p, i, j) : <<i, j>> \in
     {ij \in (1..Len(p)) \X (1..Len(p)) :
        /\ ij[1] <= ij[2]
        /\ \A k \in ij[1]..ij[2] : p[k] /= " "
        /\ (ij[1] = 1 \/ p[ij[1] - 1] = " ")
        /\ (ij[2] = Len(p) \/ p[ij[2] + 1] = " ")}}

\* the order of str: by code point, a proper prefix first
RECURSIVE StrLess(_, _)
StrLess(a, b) ==
  IF b = <<>> THEN FALSE
  ELSE IF a = <<>> THEN TRUE
  ELSE IF Ord(Head(a)) /= Ord(Head(b)) THEN Ord(Head(a)) < Ord(Head(b))
  ELSE StrLess(Tail(a), Tail(b))

\* " ".join(sorted(tokens))
RECURSIVE JoinSorted(_)
JoinSorted(tokens) ==
  IF tokens = {} THEN <<>>
  ELSE LET m == CHOOSE t \in tokens :
                  \A u \in tokens : u = t \/ StrLess(t, u)
       IN IF tokens = {m} THEN m
          ELSE m \o <<" ">> \o JoinSorted(tokens \ {m})

\* the length of the common run of a from i and b from j, within the bounds
RECURSIVE RunLen(_, _, _, _, _, _)
RunLen(a, i, ahi, b, j, bhi) ==
  IF i > ahi \/ j > bhi THEN 0
  ELSE IF a[i] /= b[j] THEN 0
  ELSE 1 + RunLen(a, i + 1, ahi, b, j + 1, bhi)

\* difflib.SequenceMatcher.find_longest_match on a[alo..ahi], b[blo..bhi]:
\* a longest block, the earliest in a, and of these the earliest in b
find_longest_match(a, alo, ahi, b, blo, bhi) ==
  LET starts == {ij \in (alo..ahi) \X (blo..bhi) : a[ij[1]] = b[ij[2]]}
      blocks == {<<ij[1], ij[2], RunLen(a, ij[1], ahi, b, ij[2], bhi)>> :
                   ij \in starts}
      longest == {x \in blocks : \A y \in blocks : y[3] <= x[3]}
      first_a == {x \in longest : \A y \in longest : x[1] <= y[1]}
  IN IF starts = {} THEN <<alo, blo, 0>>
     ELSE CHOOSE x \in first_a : \A y \in first_a : x[2] <= y[2]

\* the total size of difflib.SequenceMatcher.get_matching_blocks
RECURSIVE MatchCount(_, _, _, _, _, _)
MatchCount(a, alo, ahi, b, blo, bhi) ==
  IF alo > ahi \/ blo > bhi THEN 0
  ELSE LET m == find_longest_match(a, alo, ahi, b, blo, bhi)
       IN IF m[3] = 0 THEN 0
          ELSE m[3] + MatchCount(a, alo, m[1] - 1, b, blo, m[2] - 1)
                    + MatchCount(a, m[1] + m[3], ahi, b, m[2] + m[3], bhi)

\* utils.intr of 100 * 2.0 * matches / total: round, a half to the even side
intr_ratio(matches, total) ==
  LET n == 200 * matches
      f == n \div total
      r == n % total
  IN IF 2 * r < total THEN f
     ELSE IF 2 * r > total THEN f + 1
     ELSE IF f % 2 = 0 THEN f ELSE f + 1

\* fuzz.ratio: 0 for an empty string
ratio(s1, s2) ==
  IF Len(s1) = 0 \/ Len(s2) = 0 THEN 0
  ELSE intr_ratio(MatchCount(s1, 1, Len(s1), s2, 1, Len(s2)),
                  Len(s1) + Len(s2))

Max3(x, y, z) ==
  IF x >= y /\ x >= z THEN x ELSE IF y >= z THEN y ELSE z

\* fuzz._token_set: the three comparison strings, compared pairwise
pairwise_max(sorted_sect, combined_1to2, combined_2to1) ==
  Max3(ratio(sorted_sect, combined_1to2),
       ratio(sorted_sect, combined_2to1),
       ratio(combined_1to2, combined_2to1))

\* fuzz._token_set: the sorted intersection and the sorted remainders
combine(sorted_sect, sorted_1to2, sorted_2to1) ==
  pairwise_max(strip(sorted_sect),
               strip(sorted_sect \o <<" ">> \o sorted_1to2),
               strip(sorted_sect \o <<" ">> \o sorted_2to1))

\* fuzz._token_set: the token sets of the two processed strings
token_set(tokens1, tokens2) ==
  combine(JoinSorted(tokens1 \cap tokens2),
          JoinSorted(tokens1 \ tokens2),
          JoinSorted(tokens2 \ tokens1))

\* fuzz._token_set: 0 when a processed string is empty
processed_ratio(p1, p2) ==
  IF Len(p1) = 0 \/ Len(p2) = 0 THEN 0
  ELSE token_set(TokenSet(p1), TokenSet(p2))

\* fuzz.token_set_ratio(s1, s2)
token_set_ratio(s1, s2) == processed_ratio(full_process(s1), full_process(s2))

\* ------------------------------------------------------------------------
\* Suggestions: helpers
\* ------------------------------------------------------------------------
\* a score: <<numerator, denominator>>, denominator positive
ScoreGreater(x, y) == x[1] * y[2] > y[1] * x[2]

ScoreEqual(x, y) == x[1] * y[2] = y[1] * x[2]

\* the literal 0.7 of "if score > 0.7"
Threshold == <<7, 10>>

\* a variant of the test that lets 0.7 itself pass
AboveOrAtThreshold(score) == ~ScoreGreater(Threshold, score)

\* "if score > 0.7"
AboveThreshold(score) == ScoreGreater(score, Threshold)

\* the empty cell of the table (pandas NaN)
NaN == <<"NaN">>

isna(v) == v = NaN

\* Suggestions.fips_mapping: the dictionary; a missing key raises KeyError
fips_map ==
  [code \in {<<"0", "1">>, <<"0", "2">>, <<"0", "3">>, <<"0", "4">>,
             <<"0", "5">>, <<"0", "7">>, <<"0", "8">>, <<"0", "9">>,
             <<"1", "0">>, <<"1", "1">>, <<"1", "2">>, <<"1", "3">>,
             <<"1", "4">>} |->
     CASE code = <<"0", "1">> -> <<"A", "B">>
       [] code = <<"0", "2">> -> <<"B", "C">>
       [] code = <<"0", "3">> -> <<"M", "B">>
       [] code = <<"0", "4">> -> <<"N", "B">>
       [] code = <<"0", "5">> -> <<"N", "L">>
       [] code = <<"0", "7">> -> <<"N", "S">>
       [] code = <<"0", "8">> -> <<"O", "N">>
       [] code = <<"0", "9">> -> <<"P", "E">>
       [] code = <<"1", "0">> -> <<"Q", "C">>
       [] code = <<"1", "1">> -> <<"S", "K">>
       [] code = <<"1", "2">> -> <<"Y", "T">>
       [] code = <<"1", "3">> -> <<"N", "T">>
       [] code = <<"1", "4">> -> <<"N", "U">>]

\* fips_mapping raises KeyError for this code
fips_raises(fips_code) == fips_code \notin DOMAIN fips_map

fips_mapping(fips_code) == fips_map[fips_code]

CanadaSuffix == <<",", " ", "C", "a", "n", "a", "d", "a">>

UsaSuffix == <<",", " ", "U", "S", "A">>

\* a variant of the loop that scores every alternate name, ASCII or not
RECURSIVE alt_loop_any(_, _, _)
alt_loop_any(q, pieces, current_score) ==
  IF pieces = <<>> THEN current_score
  ELSE LET alt_name == Head(pieces)
           score == token_set_ratio(q, replace_spaces(alt_name))
       IN IF score > current_score
          THEN alt_loop_any(q, Tail(pieces), score)
          ELSE alt_loop_any(q, Tail(pieces), current_score)

\* the loop of get_fuzzy_score over alt_names.split(","): an ASCII
\* alternate name replaces the current score when it scores higher
RECURSIVE alt_loop(_, _, _)
alt_loop(q, pieces, current_score) ==
  IF pieces = <<>> THEN current_score
  ELSE LET alt_name == Head(pieces)
           score == token_set_ratio(q, replace_spaces(alt_name))
       IN IF isascii(alt_name) /\ score > current_score
          THEN alt_loop(q, Tail(pieces), score)
          ELSE alt_loop(q, Tail(pieces), current_score)

\* Suggestions.get_fuzzy_score
get_fuzzy_score(q, name, alt_names) ==
  LET first == token_set_ratio(q, replace_spaces(name))
      current_score == IF alt_names /= <<>>
                       THEN alt_loop(q, split_on(alt_names, ","), first)
                       ELSE first
  IN IF current_score > 0 THEN <<current_score, 100>> ELSE <<0, 1>>

Abs(x) == IF x < 0 THEN 0 - x ELSE x

\* geopy.distance.distance(a, b).km; the model keeps every point on one
\* meridian, where the distance grows with the difference of the latitudes
\* (111 km for one degree)
distance_km(lat1, long1, lat2, long2) ==
  111 * (Abs(lat1 - lat2) + Abs(long1 - long2))

\* a variant of the insertion that puts an element before its equals
RECURSIVE insert_desc_unstable(_, _)
insert_desc_unstable(sorted, e) ==
  IF sorted = <<>> THEN <<e>>
  ELSE IF ~ScoreGreater(Head(sorted).body.score, e.body.score)
       THEN <<e>> \o sorted
  ELSE <<Head(sorted)>> \o insert_desc_unstable(Tail(sorted), e)

\* sorted(suggestions, key=itemgetter('score'), reverse=True): a stable
\* sort, so an element goes behind the elements whose score is not lower
RECURSIVE insert_desc(_, _)
insert_desc(sorted, e) ==
  IF sorted = <<>> THEN <<e>>
  ELSE IF ScoreGreater(e.body.score, Head(sorted).body.score)
       THEN <<e>> \o sorted
  ELSE <<Head(sorted)>> \o insert_desc(Tail(sorted), e)

RECURSIVE sort_from(_, _)
sort_from(done, rest) ==
  IF rest = <<>> THEN done
  ELSE sort_from(insert_desc(done, Head(rest)), Tail(rest))

sorted_by_score_desc(suggestions) == sort_from(<<>>, suggestions)

\* ------------------------------------------------------------------------
\* The inputs of the model
\* ------------------------------------------------------------------------
w_London == <<"L", "o", "n", "d", "o", "n">>

w_toronto == <<"t", "o", "r", "o", "n", "t", "o">>

w_12 == <<"1", "2">>

w_Toronto_Island ==
  <<"T", "o", "r", "o", "n", "t", "o", " ", "I", "s", "l", "a", "n", "d">>

w_Londen == <<"L", "o", "n", "d", "e_acute", "n">>

w_Ldn == <<"L", "d", "n">>

w_londen_12 == <<"l", "o", "n", "d", "e_acute", "n", ",", "1", "2">>

w_ld_lon_don_toronto ==
  <<"l", "d", ",", "L", "o", "n", " ", "d", "o", "n", ",",
    "t", "o", "r", "o", "n", "t", "o">>

\* rows of data/cities_canada-usa.tsv, without the id
RecordPool ==
  { [ascii |-> w_London, alt_name |-> NaN, admin1 |-> <<"0", "8">>,
     lat |-> 43, long |-> -80],
    [ascii |-> w_London, alt_name |-> NaN, admin1 |-> <<"K", "Y">>,
     lat |-> 37, long |-> -80],
    [ascii |-> w_London, alt_name |-> NaN, admin1 |-> <<"0", "6">>,
     lat |-> 50, long |-> -80],
    [ascii |-> w_Toronto_Island, alt_name |-> NaN, admin1 |-> <<"0", "8">>,
     lat |-> 44, long |-> -80],
    [ascii |-> w_Londen, alt_name |-> NaN, admin1 |-> <<"1", "0">>,
     lat |-> 46, long |-> -80],
    [ascii |-> w_Ldn, alt_name |-> w_londen_12, admin1 |-> <<"T", "X">>,
     lat |-> 30, long |-> -80],
    [ascii |-> NaN, alt_name |-> w_ld_lon_don_toronto, admin1 |-> <<"T", "X">>,
     lat |-> 41, long |-> -80],
    [ascii |-> NaN, alt_name |-> NaN, admin1 |-> <<"0", "6">>,
     lat |-> 45, long |-> -80] }

\* the table: up to MaxRecords rows, the id column unique
Gazetteers ==
  UNION {{[i \in 1..n |->
             [id |-> i, ascii |-> g[i].ascii, alt_name |-> g[i].alt_name,
              admin1 |-> g[i].admin1, lat |-> g[i].lat, long |-> g[i].long]] :
          g \in [1..n -> RecordPool]} : n \in 0..MaxRecords}

\* the text of a coordinate argument: a number, or not a number
Num(v) == [numeric |-> TRUE, value |-> v]

NotANumber == [numeric |-> FALSE, value |-> 0]

QTexts == {<<>>, w_London, w_toronto, w_12}

LatTexts == {Num(43), Num(-91), NotANumber}

LongTexts == {Num(-80), Num(181), NotANumber}

\* request.args.to_dict(): any subset of the three keys
ArgsPool ==
  LET qs == {<<>>} \cup {<<x>> : x \in QTexts}
      las == {<<>>} \cup {<<x>> : x \in LatTexts}
      los == {<<>>} \cup {<<x>> : x \in LongTexts}
      dict(qo, lao, loo) ==
        [k \in (IF qo = <<>> THEN {} ELSE {"q"})
               \cup (IF lao = <<>> THEN {} ELSE {"latitude"})
               \cup (IF loo = <<>> THEN {} ELSE {"longitude"}) |->
           IF k = "q" THEN qo[1] ELSE IF k = "latitude" THEN lao[1] ELSE loo[1]]
  IN {dict(qo, lao, loo) : qo \in qs, lao \in las, loo \in los}

\* ------------------------------------------------------------------------
\* The schema of Suggestions.get
\* ------------------------------------------------------------------------
Err(msg, arg) == [msg |-> msg, arg |-> arg]

\* All(str, Length(min=1))
q_errors(v) ==
  IF Len(v) < 1 THEN {Err("length of value must be at least 1", "q")} ELSE {}

\* a variant of the coordinate check without the range
coord_errors_no_range(v, lo, hi, arg) ==
  IF ~v.numeric THEN {Err("expected float", arg)} ELSE {}

\* All(Coerce(float), Range(min=lo, max=hi))
coord_errors(v, lo, hi, arg) ==
  IF ~v.numeric THEN {Err("expected float", arg)}
  ELSE IF v.value < lo THEN {Err("value must be at least", arg)}
  ELSE IF v.value > hi THEN {Err("value must be at most", arg)}
  ELSE {}

\* the errors of the keys that are present
value_errors(a) ==
  (IF "q" \in DOMAIN a THEN q_errors(a["q"]) ELSE {})
  \cup (IF "latitude" \in DOMAIN a
        THEN coord_errors(a["latitude"], -90, 90, "latitude") ELSE {})
  \cup (IF "longitude" \in DOMAIN a
        THEN coord_errors(a["longitude"], -180, 180, "longitude") ELSE {})

\* Required('q')
required_errors(a) ==
  IF "q" \in DOMAIN a THEN {} ELSE {Err("required key not provided", "q")}

\* str(e) of the exception schema(args) raises: its first error; the errors
\* of the present keys come in the order of the arguments, the missing
\* required key comes last
first_errors(a) ==
  IF value_errors(a) /= {} THEN value_errors(a) ELSE required_errors(a)

\* ------------------------------------------------------------------------
\* Suggestions.get: the body of the loop over the rows
\* ------------------------------------------------------------------------
\* df.loc[df['id'] == rid], .values[0]: the first row with this id
row_of(table, rid) ==
  table[CHOOSE k \in 1..Len(table) :
          table[k].id = rid /\ \A j \in 1..(k - 1) : table[j].id /= rid]

\* "continue if the row does not contain a name and any alternate names"
row_skipped(row) == isna(row.ascii) /\ isna(row.alt_name)

row_name(row) == IF ~isna(row.ascii) THEN lower(row.ascii) ELSE <<>>

row_alt_names(row) == IF ~isna(row.alt_name) THEN lower(row.alt_name) ELSE <<>>

\* the row makes fips_mapping raise KeyError
suffix_raises(row) == isdigit(row.admin1) /\ fips_raises(row.admin1)

\* a variant of the suffix that takes every region code for a state
suffix_of_verbatim(row) == row.admin1 \o UsaSuffix

suffix_of(row) ==
  IF isdigit(row.admin1) THEN fips_mapping(row.admin1) \o CanadaSuffix
  ELSE row.admin1 \o UsaSuffix

has_position(a) == "latitude" \in DOMAIN a /\ "longitude" \in DOMAIN a

\* the dictionary appended to response["suggestions"]; rec is not a key of
\* the dictionary: it records the row the dictionary was built from
suggestion_of(a, row, name, score) ==
  [rec |-> row.id,
   body |->
     IF has_position(a)
     THEN [name |-> title(name) \o <<",", " ">> \o suffix_of(row),
           latitude |-> row.lat, longitude |-> row.long, score |-> score,
           distance |-> distance_km(a["latitude"].value, a["longitude"].value,
                                    row.lat, row.long)]
     ELSE [name |-> title(name) \o <<",", " ">> \o suffix_of(row),
           latitude |-> row.lat, longitude |-> row.long, score |-> score]]

\* a variant of the response object that is one list shared by the requests
new_response_shared(responses, p) ==
  responses[CHOOSE o \in DOMAIN responses : o /= p]

\* response = {"suggestions": []}: a new list for every request
new_response(responses, p) == <<>>

\* ------------------------------------------------------------------------
\* State
\* ------------------------------------------------------------------------
VARIABLES
  gazetteer,   \* the rows of data/cities_canada-usa.tsv
  args,        \* per request: request.args.to_dict()
  pc,          \* per request: "off", "start", "loop", "done", "error", "raised"
  df,          \* per request: the table read by pd.read_table
  q,           \* per request: args["q"].lower()
  i,           \* per request: the position of the loop in ids
  score,       \* per request: the local variable score
  response,    \* per request: response["suggestions"]
  out          \* per request: what the handler returned or raised

vars == <<gazetteer, args, pc, df, q, i, score, response, out>>

Procs == 1..NumRequests

NoArgs == [k \in {} |-> <<>>]

NoOutput == [kind |-> "none"]

Locals0(a) ==
  /\ args = a
  /\ df = [p \in Procs |-> <<>>]
  /\ q = [p \in Procs |-> <<>>]
  /\ i = [p \in Procs |-> 0]
  /\ score = [p \in Procs |-> <<0, 1>>]
  /\ response = [p \in Procs |-> <<>>]
  /\ out = [p \in Procs |-> NoOutput]

\* one request against any table
Init ==
  /\ gazetteer \in Gazetteers
  /\ \E a \in ArgsPool : Locals0([p \in Procs |-> IF p = 1 THEN a ELSE NoArgs])
  /\ pc = [p \in Procs |-> IF p = 1 THEN "start" ELSE "off"]

\* ------------------------------------------------------------------------
\* Suggestions.get
\* ------------------------------------------------------------------------
\* schema(args) raises: the handler returns str(e)
ValidateFail(p) ==
  /\ pc[p] = "start"
  /\ first_errors(args[p]) /= {}
  /\ \E e \in first_errors(args[p]) :
       out' = [out EXCEPT ![p] = [kind |-> "message", msg |-> e.msg,
                                  arg |-> e.arg]]
  /\ pc' = [pc EXCEPT ![p] = "error"]
  /\ UNCHANGED <<gazetteer, args, df, q, i, score, response>>

\* schema(args) passes: the response object is made, the table is read and
\* the query is lower-cased ("if args" holds, since q is required: the else
\* branch of the handler is never taken)
ValidateOk(p) ==
  /\ pc[p] = "start"
  /\ first_errors(args[p]) = {}
  /\ response' = [response EXCEPT ![p] = new_response(response, p)]
  /\ df' = [df EXCEPT ![p] = gazetteer]
  /\ q' = [q EXCEPT ![p] = lower(args[p]["q"])]
  /\ i' = [i EXCEPT ![p] = 1]
  /\ pc' = [pc EXCEPT ![p] = "loop"]
  /\ UNCHANGED <<gazetteer, args, score, out>>

\* one pass of "for rid in ids" (the score is computed once, as the local
\* variable of the code is)
ScanRow(p) ==
  /\ pc[p] = "loop"
  /\ i[p] <= Len(df[p])
  /\ LET row == row_of(df[p], df[p][i[p]].id)
         name == row_name(row)
     IN IF row_skipped(row)
        THEN /\ i' = [i EXCEPT ![p] = @ + 1]
             /\ UNCHANGED <<pc, score, response, out>>
        ELSE \E sc \in {get_fuzzy_score(q[p], name, row_alt_names(row))} :
               /\ score' = [score EXCEPT ![p] = sc]
               /\ IF AboveThreshold(sc) /\ suffix_raises(row)
                  THEN /\ pc' = [pc EXCEPT ![p] = "raised"]
                       /\ out' = [out EXCEPT ![p] = [kind |-> "KeyError"]]
                       /\ UNCHANGED <<i, response>>
                  ELSE /\ response' =
                            [response EXCEPT ![p] =
                               IF AboveThreshold(sc)
                               THEN Append(@, suggestion_of(args[p], row, name, sc))
                               ELSE @]
                       /\ i' = [i EXCEPT ![p] = @ + 1]
                       /\ UNCHANGED <<pc, out>>
  /\ UNCHANGED <<gazetteer, args, df, q>>

\* after the loop: the suggestions are sorted and the response is returned
Return(p) ==
  /\ pc[p] = "loop"
  /\ i[p] > Len(df[p])
  /\ \E sorted \in {sorted_by_score_desc(response[p])} :
       /\ response' = [response EXCEPT ![p] = sorted]
       /\ out' = [out EXCEPT ![p] = [kind |-> "response",
                                     suggestions |-> sorted]]
  /\ pc' = [pc EXCEPT ![p] = "done"]
  /\ UNCHANGED <<gazetteer, args, df, q, i, score>>

Next ==
  \E p \in Procs : ValidateFail(p) \/ ValidateOk(p) \/ ScanRow(p) \/ Return(p)

Spec == Init /\ [][Next]_vars

\* ------------------------------------------------------------------------
\* Several requests served at the same time
\* ------------------------------------------------------------------------
\* tables of at most two rows: London in Ontario, and a row with a
\* non-ASCII primary name
ConcGazetteers ==
  {g \in Gazetteers : Len(g) <= 2 /\ \A k \in 1..Len(g) : g[k].lat \in {43, 46}}

ConcArgs ==
  {a \in ArgsPool :
     \/ DOMAIN a = {}
     \/ /\ "q" \in DOMAIN a
        /\ a["q"] = w_London
        /\ first_errors(a) = {}
        /\ (DOMAIN a = {"q"} \/ has_position(a))}

InitConc ==
  /\ gazetteer \in ConcGazetteers
  /\ \E a \in [Procs -> ConcArgs] : Locals0(a)
  /\ pc = [p \in Procs |-> "start"]

SpecConc == InitConc /\ [][Next]_vars

\* ------------------------------------------------------------------------
\* Vocabulary of the properties
\* ------------------------------------------------------------------------
Returned(p) == pc[p] = "done"

Suggestions(p) == out[p].suggestions

MaxOf(S) == CHOOSE x \in S : \A y \in S : y <= x

\* the names of a row that take part in the scoring: the primary name and
\* the ASCII pieces of the alternate names, as they stand in the table
Candidates(row) ==
  (IF isna(row.ascii) THEN {} ELSE {row.ascii})
  \cup (IF isna(row.alt_name) THEN {}
        ELSE LET pieces == split_on(row.alt_name, ",")
             IN {pieces[k] : k \in {j \in 1..Len(pieces) : isascii(pieces[j])}})

\* the ASCII names among them
AsciiCandidates(row) == {c \in Candidates(row) : isascii(c)}

\* the highest token-set ratio of the query against a set of names
BestRatio(query, names) ==
  MaxOf({0} \cup {token_set_ratio(query, replace_spaces(c)) : c \in names})

\* the rows of the table whose best ratio is above 70
Matching(query) ==
  {k \in 1..Len(gazetteer) :
     /\ ~row_skipped(gazetteer[k])
     /\ BestRatio(query, Candidates(gazetteer[k])) > 70}

\* ------------------------------------------------------------------------
\* Properties
\* ------------------------------------------------------------------------
\* C1: the returned list holds exactly the rows whose best score is strictly
\* above 0.7: every suggestion scores above 0.7 and comes from such a row,
\* and every such row has one suggestion.
ExactlyAboveThreshold ==
  \A p \in Procs :
    Returned(p) =>
      \A rows \in {Matching(args[p]["q"])} :
        LET sug == Suggestions(p)
        IN /\ \A k \in 1..Len(sug) :
                /\ sug[k].body.score[1] * 10 > 7 * sug[k].body.score[2]
                /\ sug[k].rec \in rows
           /\ \A r \in rows :
                Cardinality({k \in 1..Len(sug) : sug[k].rec = r}) = 1
           /\ Len(sug) = Cardinality(rows)

\* a request returned suggestions although a row of the table scores
\* exactly 0.7
ThresholdWitness ==
  \E p \in Procs :
    /\ Returned(p)
    /\ Len(Suggestions(p)) >= 1
    /\ \E k \in 1..Len(gazetteer) :
         /\ ~row_skipped(gazetteer[k])
         /\ BestRatio(args[p]["q"], Candidates(gazetteer[k])) = 70

\* C2: with both coordinates the returned sequence is sorted by score
\* descending and, for equal scores, by distance ascending.
SortedByScoreThenDistance ==
  \A p \in Procs :
    (Returned(p) /\ has_position(args[p])) =>
      LET sug == Suggestions(p)
          row(k) == gazetteer[sug[k].rec]
          dist(k) == distance_km(args[p]["latitude"].value,
                                 args[p]["longitude"].value,
                                 row(k).lat, row(k).long)
      IN \A k \in 1..(Len(sug) - 1) :
           \/ ScoreGreater(sug[k].body.score, sug[k + 1].body.score)
           \/ /\ ScoreEqual(sug[k].body.score, sug[k + 1].body.score)
              /\ dist(k) <= dist(k + 1)

\* C3: no returned suggestion carries a distance field.
NoDistanceField ==
  \A p \in Procs :
    Returned(p) =>
      \A k \in 1..Len(Suggestions(p)) :
        "distance" \notin DOMAIN Suggestions(p)[k].body

\* C4: without coordinates the returned sequence is sorted by score
\* descending, and suggestions of equal score keep the order of their rows.
SortedStableWithoutPosition ==
  \A p \in Procs :
    (Returned(p) /\ ~has_position(args[p])) =>
      LET sug == Suggestions(p)
      IN \A j, k \in 1..Len(sug) :
           j < k =>
             /\ ~ScoreGreater(sug[k].body.score, sug[j].body.score)
             /\ ScoreEqual(sug[j].body.score, sug[k].body.score)
                  => sug[j].rec < sug[k].rec

\* a request without coordinates returned two suggestions of equal score
StableTieWitness ==
  \E p \in Procs :
    /\ Returned(p)
    /\ ~has_position(args[p])
    /\ Len(Suggestions(p)) >= 2
    /\ ScoreEqual(Suggestions(p)[1].body.score, Suggestions(p)[2].body.score)

\* C5: a query of digits only returns the empty list, whatever the table
\* and the coordinates.
NumericQueryReturnsEmpty ==
  \A p \in Procs :
    (Returned(p) /\ isdigit(args[p]["q"])) => Suggestions(p) = <<>>

\* the arguments of a request that fail validation: q missing or empty, a
\* coordinate that is not a number or lies outside its range
FailingArgs(a) ==
  (IF "q" \notin DOMAIN a THEN {"q"}
   ELSE IF a["q"] = <<>> THEN {"q"} ELSE {})
  \cup {k \in DOMAIN a \cap {"latitude"} :
          ~a[k].numeric \/ a[k].value < -90 \/ a[k].value > 90}
  \cup {k \in DOMAIN a \cap {"longitude"} :
          ~a[k].numeric \/ a[k].value < -180 \/ a[k].value > 180}

\* C6: a request that fails validation returns an error message naming a
\* failing argument before the table is read: it never reaches the loop,
\* reads no table, scores no row and produces no suggestions object.
ValidationFailsFast ==
  \A p \in Procs :
    (pc[p] /= "off" /\ FailingArgs(args[p]) /= {}) =>
      /\ pc[p] \in {"start", "error"}
      /\ df[p] = <<>>
      /\ i[p] = 0
      /\ score[p] = <<0, 1>>
      /\ response[p] = <<>>
      /\ out[p].kind \in {"none", "message"}
      /\ pc[p] = "error" =>
           /\ out[p].kind = "message"
           /\ out[p].arg \in FailingArgs(args[p])

\* a request with a valid q and a latitude out of range was answered with
\* the error of the latitude
ValidationWitness ==
  \E p \in Procs :
    /\ pc[p] = "error"
    /\ "q" \in DOMAIN args[p]
    /\ "latitude" \in DOMAIN args[p]
    /\ args[p]["latitude"].numeric
    /\ out[p].arg = "latitude"

\* C7: a name with a non-ASCII character never contributes to the score,
\* the primary name included: every returned suggestion comes from a row
\* with an ASCII name that scores above 0.7.
NonAsciiNeverContributes ==
  \A p \in Procs :
    Returned(p) =>
      \A k \in 1..Len(Suggestions(p)) :
        BestRatio(args[p]["q"],
                  AsciiCandidates(gazetteer[Suggestions(p)[k].rec])) > 70

\* the table of the provinces: 01 AB .. 14 NU, without 06
ProvinceOf(code) ==
  CASE code = <<"0", "1">> -> <<"A", "B">>
    [] code = <<"0", "2">> -> <<"B", "C">>
    [] code = <<"0", "3">> -> <<"M", "B">>
    [] code = <<"0", "4">> -> <<"N", "B">>
    [] code = <<"0", "5">> -> <<"N", "L">>
    [] code = <<"0", "7">> -> <<"N", "S">>
    [] code = <<"0", "8">> -> <<"O", "N">>
    [] code = <<"0", "9">> -> <<"P", "E">>
    [] code = <<"1", "0">> -> <<"Q", "C">>
    [] code = <<"1", "1">> -> <<"S", "K">>
    [] code = <<"1", "2">> -> <<"Y", "T">>
    [] code = <<"1", "3">> -> <<"N", "T">>
    [] code = <<"1", "4">> -> <<"N", "U">>
    [] OTHER -> <<>>

AllDigits(code) == code /= <<>> /\ \A k \in 1..Len(code) : code[k] \in Digits

\* the end of a string
EndsWith(s, t) ==
  Len(s) >= Len(t) /\ SubSeq(s, Len(s) - Len(t) + 1, Len(s)) = t

\* C8: the region suffix of every suggestion is right for its row: the
\* province of the table and ", Canada" for a code of digits, the code
\* itself and ", USA" otherwise; a matching row whose code of digits is not
\* in the table ends the request with an error and never yields a
\* suggestion.
RegionSuffixCorrect ==
  \A p \in Procs :
    /\ \A k \in 1..Len(response[p]) :
         LET row == gazetteer[response[p][k].rec]
             name == response[p][k].body.name
         IN IF AllDigits(row.admin1)
            THEN /\ ProvinceOf(row.admin1) /= <<>>
                 /\ EndsWith(name, <<",", " ">> \o ProvinceOf(row.admin1)
                                     \o <<",", " ", "C", "a", "n", "a", "d", "a">>)
            ELSE EndsWith(name, <<",", " ">> \o row.admin1
                                  \o <<",", " ", "U", "S", "A">>)
    /\ Returned(p) =>
         /\ Suggestions(p) = response[p]
         /\ \A r \in {k \in 1..Len(gazetteer) :
                        /\ AllDigits(gazetteer[k].admin1)
                        /\ ProvinceOf(gazetteer[k].admin1) = <<>>} :
              r \notin Matching(args[p]["q"])
    /\ pc[p] = "raised" =>
         /\ out[p].kind = "KeyError"
         /\ i[p] \in Matching(args[p]["q"])
         /\ AllDigits(gazetteer[i[p]].admin1)
         /\ ProvinceOf(gazetteer[i[p]].admin1) = <<>>

\* a request returned a suggestion for a Canadian row and one for a row of
\* the USA
RegionWitness ==
  \E p \in Procs :
    /\ Returned(p)
    /\ \E j, k \in 1..Len(Suggestions(p)) :
         /\ AllDigits(gazetteer[Suggestions(p)[j].rec].admin1)
         /\ ~AllDigits(gazetteer[Suggestions(p)[k].rec].admin1)

\* the result of a request served alone: the rows in order, then the sort
RECURSIVE AloneFrom(_, _, _)
AloneFrom(a, k, acc) ==
  IF k > Len(gazetteer)
  THEN [kind |-> "response", suggestions |-> sorted_by_score_desc(acc)]
  ELSE LET row == gazetteer[k]
           name == row_name(row)
           sc == get_fuzzy_score(lower(a["q"]), name, row_alt_names(row))
       IN IF row_skipped(row) \/ ~AboveThreshold(sc)
          THEN AloneFrom(a, k + 1, acc)
          ELSE IF suffix_raises(row) THEN [kind |-> "KeyError"]
          ELSE AloneFrom(a, k + 1, Append(acc, suggestion_of(a, row, name, sc)))

RunAlone(a) == AloneFrom(a, 1, <<>>)

\* C9: a request writes neither the table nor anything another request
\* reads: however the requests interleave, each one ends with the result it
\* has when served alone, and two requests with the same arguments end with
\* the same result.
RequestsIndependent ==
  /\ [][gazetteer' = gazetteer]_vars
  /\ [](\A p \in Procs :
          /\ pc[p] \in {"done", "raised"} => out[p] = RunAlone(args[p])
          /\ \A r \in Procs :
               (Returned(p) /\ Returned(r) /\ args[p] = args[r])
                 => out[p] = out[r])

\* two requests are in the loop at the same time, each with a suggestion
\* collected
InterleavingWitness ==
  \E p, r \in Procs :
    /\ p /= r
    /\ pc[p] = "loop" /\ pc[r] = "loop"
    /\ response[p] /= <<>> /\ response[r] /= <<>>
    /\ i[p] <= Len(df[p]) /\ i[r] <= Len(df[r])

\* the row whose score the local variable score holds: the row that raised,
\* or the last row before the position of the loop that was not skipped
ScoredRows(p) ==
  IF pc[p] = "raised" THEN {i[p]}
  ELSE {k \in 1..(i[p] - 1) : ~row_skipped(gazetteer[k])}

\* C10: the score of a row is its best token-set ratio over the primary
\* name and the ASCII alternate names, divided by 100, and 0 when that
\* ratio is 0; a row without any name is skipped and is never returned.
ScoreIsBestRatio ==
  \A p \in Procs :
    /\ ScoredRows(p) /= {} =>
         \A best \in {BestRatio(args[p]["q"],
                                Candidates(gazetteer[MaxOf(ScoredRows(p))]))} :
           /\ score[p][1] * 100 = best * score[p][2]
           /\ best = 0 => score[p][1] = 0
    /\ \A k \in 1..Len(response[p]) :
         LET row == gazetteer[response[p][k].rec]
         IN /\ Candidates(row) /= {}
            /\ response[p][k].body.score[1] * 100 =
                 BestRatio(args[p]["q"], Candidates(row))
                   * response[p][k].body.score[2]

\* the loop has just scored a row whose best name is an alternate name,
\* next to a non-ASCII alternate name that is left out
AlternateNameWitness ==
  \E p \in Procs :
    /\ pc[p] = "loop"
    /\ ScoredRows(p) /= {}
    /\ LET row == gazetteer[MaxOf(ScoredRows(p))]
       IN /\ ~isna(row.ascii) /\ ~isna(row.alt_name)
          /\ ~isascii(row.alt_name)
          /\ BestRatio(args[p]["q"], Candidates(row))
               > BestRatio(args[p]["q"], {row.ascii})

====
